---- MODULE Spec2Model ----
(***************************************************************************)
(* The generate-validate-persist-notify pipeline of api_tester_pro_backend *)
(* (src/api/app.py, the HTTP variant, and src/main.py, the scheduled       *)
(* variant), with the Markdown sanitizer both variants share.              *)
(*                                                                         *)
(* Text is a sequence of tokens: "F" is a triple backtick, "J" the word    *)
(* json, "NL" a newline, "SP" a blank, "X" any other character (one that   *)
(* starts no JSON value, such as x), "D" the text of one JSON document and *)
(* "B" the text of a JSON document that json.loads cannot build (an        *)
(* integer of more than 4300 digits, nesting beyond the recursion limit).  *)
(* A document token is a lexical unit of its own: it does not run into the *)
(* token next to it.  A JSON value is a record: an object carries its      *)
(* fields, an array or a string the names it contains.                     *)
(***************************************************************************)
EXTENDS Integers, Sequences, FiniteSets, TLC

VARIABLES
    db,         \* blog_posts in the realtime database: key n holds db[n]
    pc,         \* position of each invocation
    req,        \* content type of the HTTP request being served
    resp,       \* the LLM response an invocation read: its text and the document in it
    blog_data,  \* the local blog_data
    blog_id,    \* the key the push returned, 0 before it
    result,     \* what the invocation returned
    emails,     \* the send_email calls of the invocation, in order
    steps,      \* the pipeline steps the invocation ran, in order
    cin,        \* sanitizer study: the input text
    cout,       \* sanitizer study: clean_markdown_response(cin)
    cout2,      \* sanitizer study: clean_markdown_response(cout)
    cpc         \* sanitizer study: position

vars == <<db, pc, req, resp, blog_data, blog_id, result, emails, steps, cin, cout, cout2, cpc>>
pipeVars == <<db, pc, req, resp, blog_data, blog_id, result, emails, steps>>
cleanVars == <<cin, cout, cout2, cpc>>

----------------------------------------------------------------------------
(* Bounds *)

MaxLen == 6
MaxRecords == 1

----------------------------------------------------------------------------
(* clean_markdown_response *)

Whitespace == {"NL", "SP"}
Alphabet == {"F", "J", "NL", "SP", "X"}

RECURSIVE SkipWs(_, _)
SkipWs(t, i) ==
    IF i <= Len(t) /\ t[i] \in Whitespace THEN SkipWs(t, i + 1) ELSE i

\* ^ under re.MULTILINE: the start of the text or just after a newline
AtLineStart(t, i) == i = 1 \/ t[i - 1] = "NL"

\* $ under re.MULTILINE: the end of the text or just before a newline
AtLineEnd(t, i) == i = Len(t) \/ t[i + 1] = "NL"

\* the first alternative, ^```json\s*, tried at position i
MatchOpen(t, i) ==
    /\ AtLineStart(t, i)
    /\ t[i] = "F"
    /\ i + 1 <= Len(t)
    /\ t[i + 1] = "J"

\* the second alternative, \s*```$, tried at position i
MatchClose(t, i) ==
    LET j == SkipWs(t, i)
    IN  j <= Len(t) /\ t[j] = "F" /\ AtLineEnd(t, j)

\* re.sub(r'^```json\s*|\s*```$', '', text, flags=re.MULTILINE), from position i
RECURSIVE ReSub(_, _)
ReSub(t, i) ==
    IF i > Len(t) THEN <<>>
    ELSE IF MatchOpen(t, i) THEN ReSub(t, SkipWs(t, i + 2))
    ELSE IF MatchClose(t, i) THEN ReSub(t, SkipWs(t, i) + 1)
    ELSE <<t[i]>> \o ReSub(t, i + 1)

RECURSIVE LStrip(_)
LStrip(t) ==
    IF t # <<>> /\ Head(t) \in Whitespace THEN LStrip(Tail(t)) ELSE t

RECURSIVE RStrip(_)
RStrip(t) ==
    IF t # <<>> /\ t[Len(t)] \in Whitespace THEN RStrip(SubSeq(t, 1, Len(t) - 1)) ELSE t

Strip(t) == RStrip(LStrip(t))

clean_markdown_response(response_text) == Strip(ReSub(response_text, 1))

----------------------------------------------------------------------------
(* JSON values and the Python operations the pipeline applies to them *)

EmptyFields == [k \in {} |-> "str"]

JObject(f) == [kind |-> "object", fields |-> f, names |-> {}, truthy |-> (DOMAIN f # {})]
JArray(S) == [kind |-> "array", fields |-> EmptyFields, names |-> S, truthy |-> (S # {})]
JString(S, nonempty) == [kind |-> "string", fields |-> EmptyFields, names |-> S, truthy |-> nonempty]
JNumber(nonzero) == [kind |-> "number", fields |-> EmptyFields, names |-> {}, truthy |-> nonzero]
JBool(b) == [kind |-> "bool", fields |-> EmptyFields, names |-> {}, truthy |-> b]
JNull == [kind |-> "null", fields |-> EmptyFields, names |-> {}, truthy |-> FALSE]

required_fields == <<"title", "description", "meta_title", "meta_description", "keywords", "content">>
Required == {required_fields[i] : i \in 1..Len(required_fields)}

\* json.loads(cleaned_response) skips leading whitespace and decodes one value,
\* then accepts nothing but whitespace.  A document beyond the interpreter's
\* limits raises ValueError or RecursionError while it is decoded, whatever
\* follows it; neither is a json.JSONDecodeError.  Text that starts with no
\* document, and text after a document, raise json.JSONDecodeError.
JsonLoads(t, doc) ==
    LET u == LStrip(t)
    IN  IF u # <<>> /\ Head(u) = "B"
        THEN [ok |-> FALSE, raised |-> "other", value |-> JNull]
        ELSE IF u # <<>> /\ Head(u) = "D" /\ RStrip(Tail(u)) = <<>>
        THEN [ok |-> TRUE, raised |-> "none", value |-> doc]
        ELSE [ok |-> FALSE, raised |-> "JSONDecodeError", value |-> JNull]

\* `field in blog_data` raises TypeError unless blog_data is a dict, a list or a str
SupportsIn(v) == v.kind \in {"object", "array", "string"}

\* `field in blog_data`: a key of a dict, an element of a list, a substring of a str
PyIn(f, v) ==
    IF v.kind = "object" THEN f \in DOMAIN v.fields ELSE f \in v.names

AnyPresent(v) == \E i \in 1..Len(required_fields) : PyIn(required_fields[i], v)

\* all(field in blog_data for field in required_fields)
AllPresent(v) == \A i \in 1..Len(required_fields) : PyIn(required_fields[i], v)

\* [f for f in required_fields if f not in blog_data]
MissingFields(v) == SelectSeq(required_fields, LAMBDA f : ~PyIn(f, v))

\* blog_data["created_at"] = ... raises TypeError unless blog_data is a dict
SupportsSetItem(v) == v.kind = "object"

SetDefaultCreatedAt(v) ==
    JObject([k \in DOMAIN v.fields \cup {"created_at"} |->
                IF k \in DOMAIN v.fields THEN v.fields[k] ELSE "utcnow"])

\* blog_data["created_at"] = datetime.utcnow().isoformat()
SetCreatedAt(v) ==
    JObject([k \in DOMAIN v.fields \cup {"created_at"} |->
                IF k = "created_at" THEN "utcnow" ELSE v.fields[k]])

\* blog_data['description'][:100] raises TypeError for null and for a number
Sliceable(val) == val \in {"str", "utcnow"}

\* f"...{blog_data['title']}...{blog_data['description'][:100]}..." raises
\* KeyError for an absent key and TypeError for a description that has no slice
MessageBuilds(v) ==
    /\ "title" \in DOMAIN v.fields
    /\ "description" \in DOMAIN v.fields
    /\ Sliceable(v.fields["description"])

----------------------------------------------------------------------------
(* What the LLM may answer *)

\* a field value: a string, null or a number
Values == {"str", "null", "num"}
Extras == {"created_at", "extra"}

\* any of the required names, with or without a created_at and a field the
\* prompt did not ask for
KeySets == {R \cup E : R \in SUBSET Required, E \in SUBSET Extras}

AllStr(K) == [k \in K |-> "str"]

\* the objects over K whose values are strings, but for one at most
ObjectsOver(K) ==
    {JObject(AllStr(K))}
    \cup {JObject([AllStr(K) EXCEPT ![k] = val]) : k \in K, val \in Values \ {"str"}}

ObjectDocs == UNION {ObjectsOver(K) : K \in KeySets}

\* JSON that is no object: null, 5, 0, true, "", a string naming every required
\* field, [], ["title"], the list of the required names
OtherDocs ==
    {JNull, JNumber(TRUE), JNumber(FALSE), JBool(TRUE), JString({}, FALSE),
     JString(Required, TRUE), JArray({}), JArray({"title"}), JArray(Required)}

Docs == ObjectDocs \cup OtherDocs

\* the documents of the interleaved runs: a complete one, one whose description
\* is null, one with a title only
ConcDocs ==
    {JObject(AllStr(Required)),
     JObject([AllStr(Required) EXCEPT !["description"] = "null"]),
     JObject(AllStr({"title"}))}

\* the document alone; fenced as ```json ... ```; after a bare ``` on the same
\* line, which the sanitizer leaves in place; text that is no JSON; a document
\* beyond the limits of json.loads, alone, followed by other text, and fenced
PlainText == <<"D">>
FencedText == <<"F", "J", "NL", "D", "NL", "F">>
BareFenceText == <<"F", "D", "F">>
NotJson == <<"X">>
OverLimitText == <<"B">>
OverLimitThenText == <<"B", "X">>
FencedOverLimitText == <<"F", "J", "NL", "B", "NL", "F">>

Responses(D, texts) ==
    {[error |-> "none", text |-> w, doc |-> d] : w \in texts, d \in D}
    \cup {[error |-> "none", text |-> w, doc |-> JNull] : w \in {BareFenceText, NotJson, OverLimitText, OverLimitThenText,
                   FencedOverLimitText}}

\* the request raises, or the answer carries no choices[0].message.content
GenFailures ==
    {[error |-> e, text |-> <<>>, doc |-> JNull] : e \in {"network_error", "no_completion"}}

NoResponse == [error |-> "none", text |-> <<>>, doc |-> JNull]

----------------------------------------------------------------------------
(* Invocations *)

\* h1 and h2 serve HTTP requests (src/api/app.py), s is the scheduled script
\* (src/main.py); all write to the same blog_posts
AllProcs == {"h1", "h2", "s"}
SeqProcs == {"h1", "s"}
ConcProcs == {"h1", "h2", "s"}
Variant(p) == IF p = "s" THEN "sched" ELSE "http"

ContentTypes == {"application/json", "application/json; charset=utf-8", "text/plain", "none"}

ContentTypeMentionsJson(ct) == ct \in {"application/json", "application/json; charset=utf-8"}

\* request.content_type != 'application/json' sends the 415
ContentTypeOk(ct) == ct = "application/json"
Bodies == {"object", "not_an_object", "malformed"}

NoResult ==
    [outcome |-> "none", status |-> 0, error |-> "", missing |-> <<>>,
     blog_id |-> 0, firebase_url |-> <<>>]

firebase_url(key) ==
    <<"https://api-tester-pro-175f3-default-rtdb.firebaseio.com/blog_posts/", key, ".json">>

Failure(v, msg, missing) ==
    IF v = "http"
    THEN [NoResult EXCEPT !.outcome = "failure", !.status = 500, !.error = msg, !.missing = missing]
    ELSE [NoResult EXCEPT !.outcome = "failure"]

Success(v, key) ==
    IF v = "http"
    THEN [NoResult EXCEPT !.outcome = "success", !.status = 200,
                          !.blog_id = key, !.firebase_url = firebase_url(key)]
    ELSE [NoResult EXCEPT !.outcome = "success"]

\* an exception that leaves generate_and_save_blog: the endpoint answers 400,
\* the scheduled run ends with the exception
Propagated(v) ==
    IF v = "http"
    THEN [NoResult EXCEPT !.outcome = "raised", !.status = 400, !.error = "Invalid JSON payload"]
    ELSE [NoResult EXCEPT !.outcome = "raised"]

Email(subject, body, missing, view, smtp) ==
    [subject |-> subject, body |-> body, missing |-> missing, view |-> view, smtp |-> smtp]

SmtpOutcomes == {"sent", "smtp_error"}

send_email_raising(smtp) == IF smtp = "smtp_error" THEN "raised" ELSE "returned"

\* send_email: whatever the SMTP session does, the call returns
send_email(smtp) == "returned"

GeneralHandlerSilent(v, prior, smtp) ==
    [emails |-> prior, result |-> Failure(v, "Internal server error", <<>>)]

\* the outer `except Exception` of generate_and_save_blog
GeneralHandler(v, prior, smtp) ==
    LET e == Email("Blog Generation Error", "General error", <<>>, 0, smtp)
    IN  [emails |-> prior \o <<e>>,
         result |-> IF send_email(smtp) = "returned"
                    THEN Failure(v, "Internal server error", <<>>)
                    ELSE Propagated(v)]

\* a send_email call inside the outer try, followed by `return res`
NotifyAndReturn(v, e, res, smtp2) ==
    IF send_email(e.smtp) = "returned"
    THEN [emails |-> <<e>>, result |-> res]
    ELSE GeneralHandler(v, <<e>>, smtp2)

----------------------------------------------------------------------------
(* The pipeline, one action per step *)

\* generate_and_save_blog returns: out carries the emails attempted and the result
Finish(p, out, ran) ==
    /\ pc' = [pc EXCEPT ![p] = "done"]
    /\ emails' = [emails EXCEPT ![p] = out.emails]
    /\ result' = [result EXCEPT ![p] = out.result]
    /\ steps' = [steps EXCEPT ![p] = @ \o ran]

Continue(p, next, ran) ==
    /\ pc' = [pc EXCEPT ![p] = next]
    /\ steps' = [steps EXCEPT ![p] = @ \o ran]
    /\ UNCHANGED <<emails, result>>

\* generate_blog_endpoint up to the call of generate_and_save_blog
Request(p) ==
    /\ Variant(p) = "http"
    /\ pc[p] = "idle"
    /\ Len(db) < MaxRecords
    /\ \E ct \in ContentTypes, body \in Bodies :
         /\ req' = [req EXCEPT ![p] = ct]
         /\ IF ~ContentTypeOk(ct)
            THEN Finish(p, [emails |-> <<>>,
                            result |-> [NoResult EXCEPT !.outcome = "rejected", !.status = 415,
                                            !.error = "Content-Type must be application/json"]], <<>>)
            ELSE IF body # "object"
            THEN Finish(p, [emails |-> <<>>,
                            result |-> [NoResult EXCEPT !.outcome = "rejected", !.status = 400,
                                            !.error = "Invalid JSON payload"]], <<>>)
            ELSE Continue(p, "generate", <<>>)
    /\ UNCHANGED <<db, resp, blog_data, blog_id, cleanVars>>

\* the scheduler (or the start of the script) calls generate_and_save_blog
Tick(p) ==
    /\ Variant(p) = "sched"
    /\ pc[p] = "idle"
    /\ Len(db) < MaxRecords
    /\ Continue(p, "generate", <<>>)
    /\ UNCHANGED <<db, req, resp, blog_data, blog_id, cleanVars>>

\* the request to the LLM: chain.invoke (HTTP), requests.post ... ["content"] (scheduled)
Generate(p, R) ==
    /\ pc[p] = "generate"
    /\ \E out \in GenFailures \cup R, smtp \in SmtpOutcomes, smtp2 \in SmtpOutcomes :
         /\ resp' = [resp EXCEPT ![p] = out]
         /\ IF out \in GenFailures
            THEN Finish(p, IF Variant(p) = "http"
                           THEN GeneralHandler("http", <<>>, smtp)
                           ELSE NotifyAndReturn("sched",
                                    Email("Blog Generation Error", "Failed to generate blog content.",
                                          <<>>, 0, smtp),
                                    Failure("sched", "", <<>>), smtp2),
                        <<"generate">>)
            ELSE Continue(p, "parse", <<"generate">>)
    /\ UNCHANGED <<db, req, blog_data, blog_id, cleanVars>>

\* clean_markdown_response and json.loads.  HTTP: `except json.JSONDecodeError`
\* sends the parse error, any other exception reaches the outer handler.
\* Scheduled: generate_blog turns every exception into None, and `not blog_data`
\* sends the generation error for None and for any falsy value.
Parse(p) ==
    /\ pc[p] = "parse"
    /\ LET parsed == JsonLoads(clean_markdown_response(resp[p].text), resp[p].doc)
           v == Variant(p)
       IN  \E smtp \in SmtpOutcomes, smtp2 \in SmtpOutcomes :
             IF v = "http" /\ parsed.raised = "other"
             THEN /\ Finish(p, GeneralHandler(v, <<>>, smtp), <<"parse">>)
                  /\ UNCHANGED blog_data
             ELSE IF ~parsed.ok
             THEN /\ Finish(p, NotifyAndReturn(v,
                                  IF v = "http"
                                  THEN Email("Blog Generation Error", "Failed to parse JSON response",
                                             <<>>, 0, smtp)
                                  ELSE Email("Blog Generation Error", "Failed to generate blog content.",
                                             <<>>, 0, smtp),
                                  Failure(v, "Failed to parse JSON response", <<>>), smtp2),
                          <<"parse">>)
                  /\ UNCHANGED blog_data
             ELSE IF v = "sched" /\ ~parsed.value.truthy
             THEN /\ Finish(p, NotifyAndReturn(v,
                                  Email("Blog Generation Error", "Failed to generate blog content.",
                                        <<>>, 0, smtp),
                                  Failure(v, "", <<>>), smtp2),
                          <<"parse">>)
                  /\ UNCHANGED blog_data
             ELSE /\ blog_data' = [blog_data EXCEPT ![p] = parsed.value]
                  /\ Continue(p, "validate", <<"parse">>)
    /\ UNCHANGED <<db, req, resp, blog_id, cleanVars>>

\* the check of required_fields
Validate(p) ==
    /\ pc[p] = "validate"
    /\ LET d == blog_data[p]
           v == Variant(p)
       IN  \E smtp \in SmtpOutcomes, smtp2 \in SmtpOutcomes :
             IF ~SupportsIn(d)
             THEN Finish(p, GeneralHandler(v, <<>>, smtp), <<"validate">>)
             ELSE IF ~AllPresent(d)
             THEN Finish(p, NotifyAndReturn(v,
                               Email("Blog Generation Error", "Missing required fields",
                                     MissingFields(d), 0, smtp),
                               Failure(v, "Missing required fields", MissingFields(d)), smtp2),
                         <<"validate">>)
             ELSE Continue(p, "timestamp", <<"validate">>)
    /\ UNCHANGED <<db, req, resp, blog_data, blog_id, cleanVars>>

\* blog_data["created_at"] = datetime.utcnow().isoformat()
Timestamp(p) ==
    /\ pc[p] = "timestamp"
    /\ \E smtp \in SmtpOutcomes :
         IF ~SupportsSetItem(blog_data[p])
         THEN /\ Finish(p, GeneralHandler(Variant(p), <<>>, smtp), <<"timestamp">>)
              /\ UNCHANGED blog_data
         ELSE /\ blog_data' = [blog_data EXCEPT ![p] = SetCreatedAt(@)]
              /\ Continue(p, "push", <<"timestamp">>)
    /\ UNCHANGED <<db, req, resp, blog_id, cleanVars>>

PushRecordOverwrite(d, rec) ==
    IF d = <<>> THEN <<rec>> ELSE [d EXCEPT ![Len(d)] = rec]

\* blog_ref.push(blog_data): the record goes under a key no record has yet
PushRecord(d, rec) == Append(d, rec)

\* db.reference("blog_posts").push(blog_data)
Push(p) ==
    /\ pc[p] = "push"
    /\ \E outcome \in {"ok", "db_error"}, smtp \in SmtpOutcomes, smtp2 \in SmtpOutcomes :
         IF outcome = "db_error"
         THEN /\ Finish(p, NotifyAndReturn(Variant(p),
                               Email("Blog Generation Error", "Failed to save to Firebase",
                                     <<>>, 0, smtp),
                               Failure(Variant(p), "Failed to save to Firebase", <<>>), smtp2),
                        <<"push">>)
              /\ UNCHANGED <<db, blog_id>>
         ELSE /\ db' = PushRecord(db, blog_data[p])
              /\ blog_id' = [blog_id EXCEPT ![p] = Len(db')]
              /\ Continue(p, "notify", <<"push">>)
    /\ UNCHANGED <<req, resp, blog_data, cleanVars>>

\* notification_message is built and send_email("New Blog Post Generated", ...) is called
Notify(p) ==
    /\ pc[p] = "notify"
    /\ LET d == blog_data[p]
           v == Variant(p)
       IN  \E smtp \in SmtpOutcomes, smtp2 \in SmtpOutcomes :
             IF ~MessageBuilds(d)
             THEN Finish(p, GeneralHandler(v, <<>>, smtp), <<"notify">>)
             ELSE Finish(p, NotifyAndReturn(v,
                               Email("New Blog Post Generated", "New Blog Post!", <<>>,
                                     blog_id[p], smtp),
                               Success(v, blog_id[p]), smtp2),
                         <<"notify">>)
    /\ UNCHANGED <<db, req, resp, blog_data, blog_id, cleanVars>>

\* the response is sent (HTTP) or the function has returned (scheduled): the
\* invocation's locals are gone
Return(p) ==
    /\ pc[p] = "done"
    /\ pc' = [pc EXCEPT ![p] = "idle"]
    /\ req' = [req EXCEPT ![p] = "none"]
    /\ resp' = [resp EXCEPT ![p] = NoResponse]
    /\ blog_data' = [blog_data EXCEPT ![p] = JNull]
    /\ blog_id' = [blog_id EXCEPT ![p] = 0]
    /\ result' = [result EXCEPT ![p] = NoResult]
    /\ emails' = [emails EXCEPT ![p] = <<>>]
    /\ steps' = [steps EXCEPT ![p] = <<>>]
    /\ UNCHANGED <<db, cleanVars>>

PipeInit ==
    /\ db = <<>>
    /\ pc = [p \in AllProcs |-> "idle"]
    /\ req = [p \in AllProcs |-> "none"]
    /\ resp = [p \in AllProcs |-> NoResponse]
    /\ blog_data = [p \in AllProcs |-> JNull]
    /\ blog_id = [p \in AllProcs |-> 0]
    /\ result = [p \in AllProcs |-> NoResult]
    /\ emails = [p \in AllProcs |-> <<>>]
    /\ steps = [p \in AllProcs |-> <<>>]

CleanIdle ==
    /\ cin = <<>>
    /\ cout = <<>>
    /\ cout2 = <<>>
    /\ cpc = "off"

Init == PipeInit /\ CleanIdle

OthersIdle(p) == \A q \in AllProcs \ {p} : pc[q] = "idle"

\* a request served while nothing else runs
SeqRequest(p) == OthersIdle(p) /\ Request(p)

\* a scheduled run started while nothing else runs
SeqTick(p) == OthersIdle(p) /\ Tick(p)

\* one invocation at a time, HTTP or scheduled, over every document of Docs
Next ==
    \E p \in SeqProcs :
        \/ SeqRequest(p)
        \/ SeqTick(p)
        \/ Generate(p, Responses(Docs, {PlainText, FencedText}))
        \/ Parse(p)
        \/ Validate(p)
        \/ Timestamp(p)
        \/ Push(p)
        \/ Notify(p)
        \/ Return(p)

Spec == Init /\ [][Next]_vars

\* two HTTP requests and the scheduled run, interleaved
NextConc ==
    \E p \in ConcProcs :
        \/ Request(p)
        \/ Tick(p)
        \/ Generate(p, Responses(ConcDocs, {PlainText}))
        \/ Parse(p)
        \/ Validate(p)
        \/ Timestamp(p)
        \/ Push(p)
        \/ Notify(p)
        \/ Return(p)

SpecConc == Init /\ [][NextConc]_vars

----------------------------------------------------------------------------
(* The sanitizer on its own, over every text of at most MaxLen tokens *)

RECURSIVE Texts(_)
Texts(n) ==
    IF n = 0 THEN {<<>>}
    ELSE LET shorter == Texts(n - 1)
         IN  shorter \cup {Append(t, a) : t \in {u \in shorter : Len(u) = n - 1}, a \in Alphabet}

CleanInit ==
    /\ PipeInit
    /\ cin \in Texts(MaxLen)
    /\ cout = <<>>
    /\ cout2 = <<>>
    /\ cpc = "input"

CleanOnce ==
    /\ cpc = "input"
    /\ cout' = clean_markdown_response(cin)
    /\ cpc' = "cleaned"
    /\ UNCHANGED <<cin, cout2, pipeVars>>

CleanAgain ==
    /\ cpc = "cleaned"
    /\ cout2' = clean_markdown_response(cout)
    /\ cpc' = "recleaned"
    /\ UNCHANGED <<cin, cout, pipeVars>>

CleanNext == CleanOnce \/ CleanAgain

SpecClean == CleanInit /\ [][CleanNext]_vars

----------------------------------------------------------------------------
(* Properties *)

\* the invocation has returned from generate_and_save_blog
Returned(p) == pc[p] = "done" /\ steps[p] # <<>>

\* the document json.loads gave this invocation
ParsedOf(p) == JsonLoads(clean_markdown_response(resp[p].text), resp[p].doc)

\* the push of this invocation succeeded
Pushed(p) == blog_id[p] # 0

ErrorEmails(p) == {i \in 1..Len(emails[p]) : emails[p][i].subject = "Blog Generation Error"}
SuccessEmails(p) == {i \in 1..Len(emails[p]) : emails[p][i].subject = "New Blog Post Generated"}

Pipeline == <<"generate", "parse", "validate", "timestamp", "push", "notify">>

\* C1: an invocation that has returned either completed every step, pushed one
\* record, attempted the success notification and reports success (HTTP: 200
\* with blog_id and firebase_url), or reports failure (HTTP: 500 with an error)
\* and wrote no record.
C1_NoPartialSuccess ==
    \A p \in AllProcs :
        Returned(p) =>
            \/ /\ steps[p] = Pipeline
               /\ Pushed(p)
               /\ blog_id[p] <= Len(db)
               /\ db[blog_id[p]] = blog_data[p]
               /\ SuccessEmails(p) # {}
               /\ result[p].outcome = "success"
               /\ Variant(p) = "http" =>
                    /\ result[p].status = 200
                    /\ result[p].blog_id = blog_id[p]
                    /\ result[p].firebase_url = firebase_url(blog_id[p])
            \/ /\ result[p].outcome = "failure"
               /\ Variant(p) = "http" => (result[p].status = 500 /\ result[p].error # "")
               /\ ~Pushed(p)

\* what the failed step leaves behind: the steps up to it and no other, one
\* 'Blog Generation Error' notification, an error result, nothing persisted
ShortCircuit(p, ran) ==
    /\ steps[p] = ran
    /\ Len(emails[p]) = 1
    /\ ErrorEmails(p) = {1}
    /\ result[p].outcome = "failure"
    /\ Variant(p) = "http" => result[p].status = 500
    /\ ~Pushed(p)

GenerationFailed(p) == resp[p].error # "none"
ParseFailed(p) == resp[p].error = "none" /\ ~ParsedOf(p).ok
ValidationFailed(p) ==
    /\ resp[p].error = "none"
    /\ ParsedOf(p).ok
    /\ ParsedOf(p).value.kind = "object"
    /\ ~(Required \subseteq DOMAIN ParsedOf(p).value.fields)
PushFailed(p) == Len(steps[p]) = 5 /\ ~Pushed(p)

\* C2: when generation, parsing, validation or the database write fails, no
\* later step runs, one 'Blog Generation Error' notification is attempted and
\* an error result is returned, with nothing persisted.
C2_ShortCircuit ==
    \A p \in AllProcs :
        Returned(p) =>
            /\ GenerationFailed(p) => ShortCircuit(p, SubSeq(Pipeline, 1, 1))
            /\ ParseFailed(p) => ShortCircuit(p, SubSeq(Pipeline, 1, 2))
            /\ ValidationFailed(p) =>
                 \/ ShortCircuit(p, SubSeq(Pipeline, 1, 3))
                 \/ Variant(p) = "sched" /\ ShortCircuit(p, SubSeq(Pipeline, 1, 2))
            /\ PushFailed(p) => ShortCircuit(p, SubSeq(Pipeline, 1, 5))

C2_Witness ==
    \E p \in AllProcs :
        /\ Returned(p)
        /\ ValidationFailed(p)
        /\ steps[p] = SubSeq(Pipeline, 1, 3)
        /\ ErrorEmails(p) = {1}

\* the result that goes with a notification, whatever became of the send
ResultOf(v, e, key) ==
    IF e.subject = "New Blog Post Generated" THEN Success(v, key)
    ELSE IF e.body = "Failed to parse JSON response" THEN Failure(v, "Failed to parse JSON response", <<>>)
    ELSE IF e.body = "Missing required fields" THEN Failure(v, "Missing required fields", e.missing)
    ELSE IF e.body = "Failed to save to Firebase" THEN Failure(v, "Failed to save to Firebase", <<>>)
    ELSE IF e.body = "General error" THEN Failure(v, "Internal server error", <<>>)
    ELSE Failure(v, "", <<>>)

\* C3: send_email never raises to its caller, and the result of an invocation
\* is the one that goes with the notification it attempted, whether the send
\* succeeded or failed: success (200, blog id, URL) after a push, the same
\* error result on a failure path.
C3_NotificationNeverFatal ==
    \A p \in AllProcs :
        Returned(p) =>
            /\ result[p].outcome # "raised"
            /\ Len(emails[p]) = 1
            /\ result[p] = ResultOf(Variant(p), emails[p][1], blog_id[p])
            /\ SuccessEmails(p) # {} => result[p].outcome = "success"

C3_Witness ==
    \E p \in AllProcs :
        /\ Returned(p)
        /\ Variant(p) = "http"
        /\ Pushed(p)
        /\ emails[p][1].subject = "New Blog Post Generated"
        /\ emails[p][1].smtp = "smtp_error"
        /\ result[p].status = 200
        /\ result[p].blog_id = blog_id[p]

\* C4: every record under blog_posts has the six required fields, none null.
C4_PersistedRecordsValid ==
    \A k \in 1..Len(db) :
        \A f \in Required :
            /\ f \in DOMAIN db[k].fields
            /\ db[k].fields[f] # "null"

\* C5: a parsed JSON object gets past validation iff it has the six required
\* keys, whatever the values; when one is absent, the failure notification
\* (and the HTTP error result) lists exactly the required names that are not
\* keys of the object.
C5_ValidationResult ==
    \A p \in AllProcs :
        (Returned(p) /\ resp[p].error = "none" /\ ParsedOf(p).ok
            /\ ParsedOf(p).value.kind = "object") =>
            LET keys == DOMAIN ParsedOf(p).value.fields
                reported(m) == {m[i] : i \in 1..Len(m)}
            IN  /\ (Len(steps[p]) > 3) <=> (Required \subseteq keys)
                /\ ~(Required \subseteq keys) =>
                     /\ Len(emails[p]) = 1
                     /\ emails[p][1].body = "Missing required fields"
                     /\ reported(emails[p][1].missing) = Required \ keys
                     /\ Variant(p) = "http" => reported(result[p].missing) = Required \ keys

\* C6: the records under blog_posts only grow: a step changes blog_posts only
\* by a successful push, which adds one record under a key no record had, and
\* every record already there stays as it is.
C6_AppendOnly ==
    [][/\ Len(db') >= Len(db)
       /\ \A k \in 1..Len(db) : db'[k] = db[k]
       /\ \A p \in AllProcs :
            (pc[p] = "push" /\ pc'[p] = "notify") =>
                /\ Len(db') = Len(db) + 1
                /\ blog_id'[p] = Len(db')
                /\ db'[blog_id'[p]] = blog_data[p]
                /\ \A q \in AllProcs \ {p} : blog_id[q] # blog_id'[p]
       /\ (\A p \in AllProcs : ~(pc[p] = "push" /\ pc'[p] = "notify")) => db' = db]_vars

C6_Witness ==
    \E p, q \in AllProcs :
        /\ p # q
        /\ pc[p] = "notify"
        /\ pc[q] = "notify"
        /\ Len(db) >= 2
        /\ blog_id[p] # blog_id[q]

\* C7: the record pushed has the fields of the parsed object, each with the
\* value it had, and created_at, and no other; created_at is the timestamp the
\* orchestrator attached, never the generator's value.
C7_RecordRoundTrip ==
    \A p \in AllProcs :
        Pushed(p) =>
            LET parsed == ParsedOf(p).value.fields
                rec == db[blog_id[p]].fields
            IN  /\ ParsedOf(p).ok
                /\ DOMAIN rec = DOMAIN parsed \cup {"created_at"}
                /\ \A k \in DOMAIN parsed \ {"created_at"} : rec[k] = parsed[k]
                /\ rec["created_at"] = "utcnow"

C7_Witness ==
    \E p \in AllProcs :
        /\ Pushed(p)
        /\ resp[p].text = FencedText
        /\ "created_at" \in DOMAIN ParsedOf(p).value.fields
        /\ ParsedOf(p).value.fields["created_at"] = "str"
        /\ db[blog_id[p]].fields["created_at"] = "utcnow"

LeadingMarker(t) ==
    IF Len(t) >= 2 /\ t[1] = "F" /\ t[2] = "J" THEN 2
    ELSE IF Len(t) >= 1 /\ t[1] = "F" THEN 1
    ELSE 0

Fenced(t) ==
    /\ LeadingMarker(t) > 0
    /\ Len(t) > LeadingMarker(t)
    /\ t[Len(t)] = "F"

Unfenced(t) == Strip(SubSeq(t, LeadingMarker(t) + 1, Len(t) - 1))

\* C8: for a text with a leading and a trailing fence marker, the sanitizer
\* returns the text without the two markers and the whitespace around it, and
\* sanitizing that output again returns it unchanged.
C8_StripAndIdempotent ==
    (cpc = "recleaned" /\ Fenced(cin)) =>
        /\ cout = Unfenced(cin)
        /\ cout2 = cout

\* C9: a request whose content type is not application/json gets a 415, and
\* the pipeline is not invoked for it: no LLM call, no push, no notification.
C9_ContentTypeGate ==
    \A p \in AllProcs :
        (Variant(p) = "http" /\ pc[p] # "idle" /\ req[p] # "application/json") =>
            /\ pc[p] = "done"
            /\ result[p].status = 415
            /\ steps[p] = <<>>
            /\ resp[p] = NoResponse
            /\ ~Pushed(p)
            /\ emails[p] = <<>>

C9_Witness ==
    \E p \in AllProcs :
        /\ pc[p] = "done"
        /\ req[p] = "application/json; charset=utf-8"
        /\ result[p].status = 415

Count(sq, x) == Cardinality({i \in 1..Len(sq) : sq[i] = x})

\* C10: an invocation that has returned called send_email exactly once and ran
\* no step twice, the push included.
C10_OneNotificationOnePush ==
    \A p \in AllProcs :
        Returned(p) =>
            /\ Len(emails[p]) = 1
            /\ \A i \in 1..Len(Pipeline) : Count(steps[p], Pipeline[i]) <= 1
            /\ Cardinality(ErrorEmails(p)) + Cardinality(SuccessEmails(p)) = 1

C10_Witness ==
    \E p \in AllProcs :
        /\ Returned(p)
        /\ Pushed(p)
        /\ steps[p] = Pipeline
        /\ ErrorEmails(p) = {1}
        /\ SuccessEmails(p) = {}

====
